---- MODULE Spec2Model ----
(***************************************************************************)
(* Azure Maps CSV geocoder (azure_geocoder.py): build_address,             *)
(* geocode_address and the sequential driver main().                       *)
(*                                                                         *)
(* Conventions:                                                            *)
(*   - Python strings are TLA+ strings; a character is a string of         *)
(*     length 1, read with SubSeq(s, k, k).                                *)
(*   - Optional[str] is a tuple: <<>> is None, <<s>> is the string s.      *)
(*   - a Python value met in the JSON body is a tagged record, see         *)
(*     PyNone, PyStr, PyInt, PyFloat; a float is kept exactly, in tenths.  *)
(*   - a CSV file is the table csv.reader yields / csv.writer is given:    *)
(*     a header row and a sequence of rows of string fields.               *)
(***************************************************************************)
EXTENDS Integers, Sequences, FiniteSets, TLC

VARIABLES
    pc,               \* position of the program
    file,             \* the input file on disk
    headers,          \* main: headers
    rows,             \* main: rows
    total_rows,       \* main: total_rows
    output_headers,   \* main: output_headers
    results,          \* main: results
    success_count,    \* main: success_count
    error_count,      \* main: error_count
    total_confidence, \* main: total_confidence, in tenths
    i,                \* main: loop index i (0 before the first iteration)
    row,              \* main: row / build_address: row
    address,          \* main: address / geocode_address: address
    response,         \* geocode_address: outcome of requests.get
    result,           \* value returned by geocode_address
    httpLog,          \* every requests.get issued so far
    sleeps,           \* every time.sleep made so far
    outFile,          \* the output file on disk
    console           \* what the summary / error handlers printed

vars == <<pc, file, headers, rows, total_rows, output_headers, results,
          success_count, error_count, total_confidence, i, row, address,
          response, result, httpLog, sleeps, outFile, console>>

-----------------------------------------------------------------------------
(* Bounds of the model.                                                    *)

\* longest input table (number of data rows)
MaxRows == 3
\* longest row handed to build_address on its own
MaxRowLen == 14

-----------------------------------------------------------------------------
(* Program constants.                                                      *)

\* DELAY_MS: the pause between two rows, in milliseconds
DELAY_MS == 200
\* the 50 of str(e)[:50]
MSG_SLICE == 50

-----------------------------------------------------------------------------
(* Python strings.                                                         *)

None == <<>>
Some(s) == <<s>>

Min(a, b) == IF a < b THEN a ELSE b

\* str.isspace for one character (the ASCII whitespace the model uses)
IsSpace(c) == c \in {" ", "\t", "\n", "\r"}

RECURSIVE lstrip(_)
lstrip(s) ==
    IF Len(s) > 0 /\ IsSpace(SubSeq(s, 1, 1))
    THEN lstrip(SubSeq(s, 2, Len(s)))
    ELSE s

RECURSIVE rstrip(_)
rstrip(s) ==
    IF Len(s) > 0 /\ IsSpace(SubSeq(s, Len(s), Len(s)))
    THEN rstrip(SubSeq(s, 1, Len(s) - 1))
    ELSE s

\* str.strip()
strip(s) == rstrip(lstrip(s))

\* s[:n]
Slice(s, n) == SubSeq(s, 1, Min(n, Len(s)))

\* sep.join(parts)
RECURSIVE join(_, _)
join(sep, parts) ==
    IF parts = <<>> THEN ""
    ELSE IF Len(parts) = 1 THEN parts[1]
    ELSE parts[1] \o sep \o join(sep, Tail(parts))

-----------------------------------------------------------------------------
(* build_address                                                           *)

\* row[k].strip() if len(row) > k else ''      (k is the Python index)
Column(r, k) == IF Len(r) > k THEN strip(r[k + 1]) ELSE ""

NonEmpty(p) == p # ""

build_address_joinall(r) ==
    LET street1 == Column(r, 9)
        street2 == Column(r, 10)
        city == Column(r, 11)
        zip_code == Column(r, 12)
        parts == <<street1, street2, city, zip_code>>
    IN IF SelectSeq(parts, NonEmpty) # <<>> THEN Some(join(", ", parts)) ELSE None

build_address(r) ==
    LET street1 == Column(r, 9)
        street2 == Column(r, 10)
        city == Column(r, 11)
        zip_code == Column(r, 12)
        parts == SelectSeq(<<street1, street2, city, zip_code>>, NonEmpty)
    IN IF parts # <<>> THEN Some(join(", ", parts)) ELSE None

-----------------------------------------------------------------------------
(* Python values found in the JSON body, and the conversions applied to    *)
(* them.                                                                   *)

PyNone == [t |-> "none", n |-> 0, s |-> ""]
PyStr(x) == [t |-> "str", n |-> 0, s |-> x]
PyInt(x) == [t |-> "int", n |-> x, s |-> ""]
\* a float, exactly, as a number of tenths: PyFloat(-750) is -75.0
PyFloat(x) == [t |-> "float", n |-> x, s |-> ""]

\* bool(v)
Truthy(v) ==
    CASE v.t = "none" -> FALSE
      [] v.t = "str" -> v.s # ""
      [] OTHER -> v.n # 0

Abs(x) == IF x < 0 THEN -x ELSE x

\* repr of a float with one fractional digit: 40.0, -75.0, 0.9
FloatRepr(x) ==
    (IF x < 0 THEN "-" ELSE "") \o ToString(Abs(x) \div 10) \o "."
        \o ToString(Abs(x) % 10)

\* str(v)
pystr(v) ==
    CASE v.t = "none" -> "None"
      [] v.t = "str" -> v.s
      [] v.t = "int" -> ToString(v.n)
      [] OTHER -> FloatRepr(v.n)

\* d.get(key, default): opt is <<>> when the key is absent
Get(opt, default) == IF opt = <<>> THEN default ELSE opt[1]

IsDigit(c) == c \in {"0", "1", "2", "3", "4", "5", "6", "7", "8", "9"}

DigitVal(c) ==
    CASE c = "0" -> 0 [] c = "1" -> 1 [] c = "2" -> 2 [] c = "3" -> 3
      [] c = "4" -> 4 [] c = "5" -> 5 [] c = "6" -> 6 [] c = "7" -> 7
      [] c = "8" -> 8 [] c = "9" -> 9

AllDigits(s) == \A k \in 1..Len(s) : IsDigit(SubSeq(s, k, k))

RECURSIVE IntOf(_)
IntOf(s) ==
    IF s = "" THEN 0
    ELSE IntOf(SubSeq(s, 1, Len(s) - 1)) * 10 + DigitVal(SubSeq(s, Len(s), Len(s)))

DotPos(s) ==
    IF \E k \in 1..Len(s) : SubSeq(s, k, k) = "."
    THEN CHOOSE k \in 1..Len(s) :
             /\ SubSeq(s, k, k) = "."
             /\ \A j \in 1..(k - 1) : SubSeq(s, j, j) # "."
    ELSE 0

\* float(s) for decimal literals [sign] digits [. digits] with at most one
\* fractional digit (all the model's inputs carry): <<tenths>>, or <<>> when
\* float raises ValueError.
float(s) ==
    LET t == strip(s)
        signed == Len(t) > 0 /\ SubSeq(t, 1, 1) \in {"-", "+"}
        neg == Len(t) > 0 /\ SubSeq(t, 1, 1) = "-"
        u == IF signed THEN SubSeq(t, 2, Len(t)) ELSE t
        d == DotPos(u)
        ip == IF d = 0 THEN u ELSE SubSeq(u, 1, d - 1)
        fp == IF d = 0 THEN "" ELSE SubSeq(u, d + 1, Len(u))
        ok == /\ AllDigits(ip) /\ AllDigits(fp)
              /\ Len(ip) + Len(fp) > 0 /\ Len(fp) <= 1
        mag == IntOf(ip) * 10 + IntOf(fp)
    IN IF ok THEN <<IF neg THEN -mag ELSE mag>> ELSE <<>>

-----------------------------------------------------------------------------
(* geocode_address                                                         *)

\* `if not address`
NoAddressAlwaysAsk(a) == FALSE

NoAddress(a) == a = None \/ a = Some("")

\* what requests.get(...) and response.json() can produce
\*   kind "timeout": requests.exceptions.Timeout
\*   kind "error":   any other exception of the request, message msg
\*   kind "http":    a response with status_code code; valid says whether
\*                   response.json() parses (it raises with message msg
\*                   otherwise), and results is data.get('results')
NoBody == [valid |-> TRUE, results |-> <<>>]
Timeout == [kind |-> "timeout", msg |-> "", code |-> 0, body |-> NoBody]
Failure(m) == [kind |-> "error", msg |-> m, code |-> 0, body |-> NoBody]
Http(c) == [kind |-> "http", msg |-> "", code |-> c, body |-> NoBody]
BadJson(m) ==
    [kind |-> "http", msg |-> m, code |-> 200,
     body |-> [valid |-> FALSE, results |-> <<>>]]
Ok200(res) ==
    [kind |-> "http", msg |-> "", code |-> 200,
     body |-> [valid |-> TRUE, results |-> res]]
Match(pos, sc) == [position |-> pos, score |-> sc]
Position(la, lo) == [lat |-> la, lon |-> lo]

EmptyDict == [lat |-> <<>>, lon |-> <<>>]

Ret(lat, lon, confidence, status) == <<lat, lon, confidence, status>>

\* `if lat and lon`
HasCoordinates(lat, lon) == Truthy(lat) /\ Truthy(lon)

\* f'Error: {str(e)[:50]}'
ErrorStatusUncut(m) == "Error: " \o m

ErrorStatus(m) == "Error: " \o Slice(m, MSG_SLICE)

\* the elif chain on response.status_code
HttpStatus(c) ==
    CASE c = 401 -> "Error: Invalid API Key"
      [] c = 403 -> "Error: Forbidden"
      [] c = 429 -> "Error: Rate Limit"
      [] OTHER -> "Error: HTTP " \o ToString(c)

\* the body of the try block and its except clauses, given what
\* requests.get produced
HandleResponse(o) ==
    IF o.kind = "timeout" THEN Ret("", "", "", "Error: Timeout")
    ELSE IF o.kind = "error" THEN Ret("", "", "", ErrorStatus(o.msg))
    ELSE IF o.code = 200 THEN
        IF ~o.body.valid THEN Ret("", "", "", ErrorStatus(o.msg))
        ELSE LET data == o.body IN
            IF data.results # <<>> /\ Len(data.results[1]) > 0
            THEN LET res == data.results[1][1]
                     position == Get(res.position, EmptyDict)
                     lat == Get(position.lat, PyStr(""))
                     lon == Get(position.lon, PyStr(""))
                     confidence == Get(res.score, PyStr(""))
                 IN IF HasCoordinates(lat, lon)
                    THEN Ret(pystr(lat), pystr(lon), pystr(confidence), "Success")
                    ELSE Ret("", "", "", "Not Found")
            ELSE Ret("", "", "", "Not Found")
    ELSE Ret("", "", "", HttpStatus(o.code))

-----------------------------------------------------------------------------
(* The inputs the model runs on.                                           *)

HeaderWide ==
    <<"Id", "Name", "C", "D", "E", "F", "G", "H", "I",
      "Street 1", "Street 2", "City", "ZIP">>
HeaderNarrow == <<"Id">>

\* a row whose columns J, L and M hold text: "12 Main St, Ames, 50010"
RowFull ==
    <<"1", "Acme", "", "", "", "", "", "", "",
      "12 Main St", "", " Ames ", "50010">>
\* a row whose columns J..M are blank
RowBlank ==
    <<"2", "Beta", "", "", "", "", "", "", "", " ", "", "\t", "">>
\* a row that ends before column J
RowShort == <<"3", "Gamma">>

RunRows == {RowFull, RowBlank, RowShort}

Tables == UNION {[1..n -> RunRows] : n \in 0..MaxRows}

\* the input file: absent, present but not readable as text, present with
\* no line at all (next(reader) raises StopIteration), or a table
FileMissing == [kind |-> "missing", headers |-> <<>>, rows |-> <<>>]
FileUnreadable == [kind |-> "unreadable", headers |-> <<>>, rows |-> <<>>]
FileEmpty == [kind |-> "empty", headers |-> <<>>, rows |-> <<>>]
FileTable(h, rs) == [kind |-> "table", headers |-> h, rows |-> rs]

Files ==
    {FileMissing, FileUnreadable, FileEmpty}
        \cup {FileTable(h, rs) : h \in {HeaderWide, HeaderNarrow}, rs \in Tables}

MsgShort == "Connection refused"
\* exactly 50 characters
MsgFifty == "HTTPSConnectionPool(host='atlas.microsoft.com', po"
\* 79 characters
MsgLong ==
    "HTTPSConnectionPool(host='atlas.microsoft.com', port=443): Max retries exceeded"
MsgJson == "Expecting value: line 1 column 1 (char 0)"

Found(la, lo, sc) == Ok200(<< <<Match(<<Position(<<la>>, <<lo>>)>>, sc)>> >>)

\* outcomes of one request during a run
RunOutcomes ==
    { Timeout, Failure(MsgLong), Http(429), Http(500), BadJson(MsgJson),
      Ok200(<<>>), Ok200(<< <<>> >>),
      Found(PyFloat(400), PyFloat(-750), <<PyFloat(9)>>),
      Found(PyFloat(415), PyFloat(-936), <<PyInt(1)>>),
      Found(PyFloat(0), PyFloat(-750), <<PyFloat(9)>>),
      Found(PyFloat(400), PyFloat(-750), <<PyFloat(-15)>>),
      Found(PyFloat(400), PyFloat(-750), <<PyStr("high")>>),
      Found(PyFloat(400), PyFloat(-750), <<>>) }

LatValues == {<<>>, <<PyFloat(400)>>, <<PyFloat(0)>>, <<PyNone>>, <<PyInt(-33)>>}
LonValues == {<<>>, <<PyFloat(-750)>>, <<PyFloat(0)>>, <<PyInt(7)>>}
ScoreValues ==
    {<<>>, <<PyFloat(9)>>, <<PyFloat(-15)>>, <<PyInt(1)>>, <<PyNone>>,
     <<PyStr("high")>>}
PositionValues == {<<>>} \cup {<<Position(la, lo)>> : la \in LatValues, lo \in LonValues}

\* outcomes of one request, for geocode_address on its own
GeoOutcomes ==
    {Timeout}
        \cup {Failure(m) : m \in {"", MsgShort, MsgFifty, MsgLong}}
        \cup {Http(c) : c \in {401, 403, 429, 404, 500, 204}}
        \cup {BadJson(MsgJson), Ok200(<<>>), Ok200(<< <<>> >>)}
        \cup {Ok200(<< <<Match(p, sc)>> >>) : p \in PositionValues, sc \in ScoreValues}
        \cup {Ok200(<< <<Match(<<Position(<<PyFloat(0)>>, <<PyFloat(0)>>)>>, <<>>),
                         Match(<<Position(<<PyFloat(400)>>, <<PyFloat(-750)>>)>>,
                               <<PyFloat(9)>>)>> >>)}

GeoAddresses == {None, Some(""), Some("12 Main St, Ames, 50010")}

-----------------------------------------------------------------------------
(* main                                                                    *)

NoConsole == [error |-> "", summary |-> FALSE, average |-> <<>>]

\* sys.argv[1]
input_file == "input.csv"

\* with open(input_file) ...: headers = next(reader); rows = list(reader)
\* raised names the exception that leaves the with block ("" for none) and
\* msg is its str()
open_and_read_lenient(f) ==
    IF f.kind = "missing"
    THEN [raised |-> "FileNotFoundError", msg |-> "No such file or directory",
          headers |-> <<>>, rows |-> <<>>]
    ELSE [raised |-> "", msg |-> "", headers |-> f.headers, rows |-> f.rows]

open_and_read(f) ==
    CASE f.kind = "missing" ->
            [raised |-> "FileNotFoundError", msg |-> "No such file or directory",
             headers |-> <<>>, rows |-> <<>>]
      [] f.kind = "unreadable" ->
            [raised |-> "UnicodeDecodeError", msg |-> "invalid start byte",
             headers |-> <<>>, rows |-> <<>>]
      [] f.kind = "empty" ->
            [raised |-> "StopIteration", msg |-> "", headers |-> <<>>, rows |-> <<>>]
      [] OTHER -> [raised |-> "", msg |-> "", headers |-> f.headers, rows |-> f.rows]

NewColumns == <<"Latitude", "Longitude", "Confidence Score", "Geocoding Status">>

\* the except clauses of main: the message printed
Handler(exc, msg) ==
    IF exc = "FileNotFoundError"
    THEN "Error: File '" \o input_file \o "' not found"
    ELSE "Error: " \o msg

\* a / b of Python: <<>> stands for ZeroDivisionError, <<a, b>> for the quotient
Divide(a, b) == IF b = 0 THEN <<>> ELSE <<a, b>>

\* `if status == 'Success'`
IsSuccessLoose(status) == SubSeq(status, 1, Min(5, Len(status))) # "Error"

IsSuccess(status) == status = "Success"

\* row + [lat, lon, confidence, status]
result_row_swapped(r, res) == r \o <<res[2], res[1], res[3], res[4]>>

result_row(r, res) == r \o <<res[1], res[2], res[3], res[4]>>

\* `if i < total_rows`
ShouldSleepAfterRequest == i < total_rows /\ ~NoAddress(address)

ShouldSleep == i < total_rows

\* `if success_count > 0`
ShowAverageAlways == TRUE

ShowAverage == success_count > 0

\* the new total_confidence after a row whose status is 'Success'
AddConfidence(total, confidence) ==
    IF confidence # ""
    THEN IF float(confidence) # <<>> THEN total + float(confidence)[1] ELSE total
    ELSE total

ReadCsv ==
    /\ pc = "start"
    /\ LET r == open_and_read(file) IN
        IF r.raised # ""
        THEN /\ console' = [console EXCEPT !.error = Handler(r.raised, r.msg)]
             /\ pc' = "done"
             /\ UNCHANGED <<headers, rows, total_rows, output_headers>>
        ELSE /\ headers' = r.headers
             /\ rows' = r.rows
             /\ total_rows' = Len(r.rows)
             /\ output_headers' = r.headers \o NewColumns
             /\ pc' = "loop"
             /\ UNCHANGED console
    /\ UNCHANGED <<file, results, success_count, error_count, total_confidence,
                   i, row, address, response, result, httpLog, sleeps, outFile>>

\* geocode_address up to requests.get: k is the row the call is made for
CallGeocode(a, k) ==
    IF NoAddress(a)
    THEN /\ result' = Ret("", "", "", "No Address")
         /\ pc' = "update"
         /\ UNCHANGED <<httpLog, response>>
    ELSE /\ httpLog' = Append(httpLog,
                [row |-> k, query |-> a, done |-> Len(results)])
         /\ pc' = "await"
         /\ UNCHANGED <<result, response>>

\* one iteration of the loop, up to the call of geocode_address
ProcessRow ==
    /\ pc = "loop"
    /\ i < Len(rows)
    /\ IF Divide(i + 1, total_rows) = <<>>
       THEN /\ console' = [console EXCEPT !.error = Handler("ZeroDivisionError", "division by zero")]
            /\ pc' = "done"
            /\ UNCHANGED <<i, row, address, result, response, httpLog>>
       ELSE /\ i' = i + 1
            /\ row' = rows[i + 1]
            /\ address' = build_address(rows[i + 1])
            /\ CallGeocode(build_address(rows[i + 1]), i + 1)
            /\ UNCHANGED console
    /\ UNCHANGED <<file, headers, rows, total_rows, output_headers, results,
                   success_count, error_count, total_confidence, sleeps, outFile>>

\* requests.get returns or raises, and geocode_address returns
RespondRetry(o) ==
    /\ pc = "await"
    /\ IF o.kind = "timeout"
       THEN /\ httpLog' = Append(httpLog, httpLog[Len(httpLog)])
            /\ UNCHANGED <<pc, response, result>>
       ELSE /\ response' = o
            /\ result' = HandleResponse(o)
            /\ pc' = "update"
            /\ UNCHANGED httpLog
    /\ UNCHANGED <<file, headers, rows, total_rows, output_headers, results,
                   success_count, error_count, total_confidence, i, row, address,
                   sleeps, outFile, console>>

Respond(o) ==
    /\ pc = "await"
    /\ response' = o
    /\ result' = HandleResponse(o)
    /\ pc' = "update"
    /\ UNCHANGED <<file, headers, rows, total_rows, output_headers, results,
                   success_count, error_count, total_confidence, i, row, address,
                   httpLog, sleeps, outFile, console>>

\* the rest of the iteration: counters, result row, and whether to sleep
UpdateRow ==
    /\ pc = "update"
    /\ IF IsSuccess(result[4])
       THEN /\ success_count' = success_count + 1
            /\ total_confidence' = AddConfidence(total_confidence, result[3])
            /\ UNCHANGED error_count
       ELSE /\ error_count' = error_count + 1
            /\ UNCHANGED <<success_count, total_confidence>>
    /\ results' = Append(results, result_row(row, result))
    /\ pc' = IF ShouldSleep THEN "sleep" ELSE "loop"
    /\ UNCHANGED <<file, headers, rows, total_rows, output_headers, i, row,
                   address, response, result, httpLog, sleeps, outFile, console>>

\* time.sleep(DELAY_MS / 1000.0)
Sleep ==
    /\ pc = "sleep"
    /\ sleeps' = Append(sleeps, [after |-> i, ms |-> DELAY_MS])
    /\ pc' = "loop"
    /\ UNCHANGED <<file, headers, rows, total_rows, output_headers, results,
                   success_count, error_count, total_confidence, i, row, address,
                   response, result, httpLog, outFile, console>>

\* the loop is over: writer.writerow(output_headers); writer.writerows(results)
WriteCsv ==
    /\ pc = "loop"
    /\ i = Len(rows)
    /\ outFile' = <<[headers |-> output_headers, rows |-> results]>>
    /\ pc' = "summary"
    /\ UNCHANGED <<file, headers, rows, total_rows, output_headers, results,
                   success_count, error_count, total_confidence, i, row, address,
                   response, result, httpLog, sleeps, console>>

\* the summary block
Summary ==
    /\ pc = "summary"
    /\ IF ShowAverage
       THEN IF Divide(total_confidence, success_count) = <<>>
            THEN console' = [error |-> Handler("ZeroDivisionError", "division by zero"),
                             summary |-> TRUE, average |-> <<>>]
            ELSE console' = [error |-> "", summary |-> TRUE,
                             average |-> Divide(total_confidence, success_count)]
       ELSE console' = [error |-> "", summary |-> TRUE, average |-> <<>>]
    /\ pc' = "done"
    /\ UNCHANGED <<file, headers, rows, total_rows, output_headers, results,
                   success_count, error_count, total_confidence, i, row, address,
                   response, result, httpLog, sleeps, outFile>>

Idle ==
    /\ headers = <<>> /\ rows = <<>> /\ total_rows = 0 /\ output_headers = <<>>
    /\ results = <<>> /\ success_count = 0 /\ error_count = 0
    /\ total_confidence = 0 /\ i = 0 /\ row = <<>> /\ address = None
    /\ response = Timeout /\ result = Ret("", "", "", "")
    /\ httpLog = <<>> /\ sleeps = <<>> /\ outFile = <<>> /\ console = NoConsole

Init ==
    /\ pc = "start"
    /\ file \in Files
    /\ Idle

Next ==
    \/ ReadCsv
    \/ ProcessRow
    \/ \E o \in RunOutcomes : Respond(o)
    \/ UpdateRow
    \/ Sleep
    \/ WriteCsv
    \/ Summary

Spec == Init /\ [][Next]_vars

-----------------------------------------------------------------------------
(* build_address on its own: one call on each row of AddrRows.             *)

AddrFields == {"", " ", "5 Elm St", " Ames", "50010\t", " \t ", " Apt 2 "}

\* rows of every length up to MaxRowLen; columns J..M range over AddrFields
AddrRows ==
    { [k \in 1..n |->
          IF k <= 9 THEN "x" ELSE IF k <= 13 THEN f[k - 9] ELSE "extra"]
      : n \in 0..MaxRowLen, f \in [1..4 -> AddrFields] }

BuildAddress ==
    /\ pc = "build"
    /\ address' = build_address(row)
    /\ pc' = "built"
    /\ UNCHANGED <<file, headers, rows, total_rows, output_headers, results,
                   success_count, error_count, total_confidence, i, row,
                   response, result, httpLog, sleeps, outFile, console>>

InitAddr ==
    /\ pc = "build"
    /\ file = FileMissing
    /\ headers = <<>> /\ rows = <<>> /\ total_rows = 0 /\ output_headers = <<>>
    /\ results = <<>> /\ success_count = 0 /\ error_count = 0
    /\ total_confidence = 0 /\ i = 0 /\ address = None
    /\ row \in AddrRows
    /\ response = Timeout /\ result = Ret("", "", "", "")
    /\ httpLog = <<>> /\ sleeps = <<>> /\ outFile = <<>> /\ console = NoConsole

NextAddr == BuildAddress

SpecAddr == InitAddr /\ [][NextAddr]_vars

-----------------------------------------------------------------------------
(* geocode_address on its own: one call on each address of GeoAddresses,   *)
(* answered by each outcome of GeoOutcomes.                                *)

EnterGeocode ==
    /\ pc = "geocode"
    /\ CallGeocode(address, i)
    /\ UNCHANGED <<file, headers, rows, total_rows, output_headers, results,
                   success_count, error_count, total_confidence, i, row, address,
                   sleeps, outFile, console>>

InitGeo ==
    /\ pc = "geocode"
    /\ file = FileMissing
    /\ headers = <<>> /\ rows = <<>> /\ total_rows = 0 /\ output_headers = <<>>
    /\ results = <<>> /\ success_count = 0 /\ error_count = 0
    /\ total_confidence = 0 /\ i = 0 /\ row = <<>>
    /\ address \in GeoAddresses
    /\ response = Timeout /\ result = Ret("", "", "", "")
    /\ httpLog = <<>> /\ sleeps = <<>> /\ outFile = <<>> /\ console = NoConsole

NextGeo ==
    \/ EnterGeocode
    \/ \E o \in GeoOutcomes : Respond(o)

SpecGeo == InitGeo /\ [][NextGeo]_vars

-----------------------------------------------------------------------------
(* Vocabulary of the properties.                                           *)

Char(s, k) == SubSeq(s, k, k)

\* the four fields appended to output row r
Lat(r) == r[Len(r) - 3]
Lon(r) == r[Len(r) - 2]
Confidence(r) == r[Len(r) - 1]
Status(r) == r[Len(r)]

StartsWith(s, p) == Len(s) >= Len(p) /\ SubSeq(s, 1, Len(p)) = p

\* the rows of the input table whose address is present
Addressed(n) == {k \in 1..n : build_address(file.rows[k]) # None}

IsTable == file.kind = "table"

\* the rows of rs, among the first n, whose status is 'Success'
Successes(rs, n) == {k \in 1..n : Status(rs[k]) = "Success"}

\* the sum, in tenths, of the numeric confidences of the first n rows of rs
\* whose status is 'Success'; a confidence that is empty or no number adds
\* nothing
RECURSIVE ConfidenceSum(_, _)
ConfidenceSum(rs, n) ==
    IF n = 0 THEN 0
    ELSE ConfidenceSum(rs, n - 1)
            + (IF Status(rs[n]) = "Success" /\ float(Confidence(rs[n])) # <<>>
               THEN float(Confidence(rs[n]))[1] ELSE 0)

-----------------------------------------------------------------------------
(* C1: the output table is the input table, row for row and in order, each *)
(* row followed by latitude, longitude, confidence and status; the header  *)
(* is the input header followed by the four new column names.              *)

\* the four appended fields of r read as (latitude, longitude, confidence,
\* status): a status of the vocabulary last, coordinates only on success
WellFormedTail(r) ==
    /\ \/ Status(r) \in {"Success", "Not Found", "No Address"}
       \/ StartsWith(Status(r), "Error: ")
    /\ Status(r) # "Success" => Lat(r) = "" /\ Lon(r) = "" /\ Confidence(r) = ""
    /\ Status(r) = "Success" => Lat(r) # "" /\ Lon(r) # ""

\* C1: every output row is the input row of the same index followed by
\* latitude, longitude, confidence, status; N rows, header plus four names
C1_RowsPreserved ==
    /\ \A k \in 1..Len(results) :
        /\ Len(results[k]) = Len(file.rows[k]) + 4
        /\ SubSeq(results[k], 1, Len(file.rows[k])) = file.rows[k]
        /\ WellFormedTail(results[k])
    /\ (pc \in {"sleep", "loop"} /\ i >= 1) =>
            <<Lat(results[i]), Lon(results[i]), Confidence(results[i]),
              Status(results[i])>> = result
    /\ outFile # <<>> =>
        /\ outFile[1].headers = file.headers \o
                <<"Latitude", "Longitude", "Confidence Score", "Geocoding Status">>
        /\ outFile[1].rows = results
        /\ Len(outFile[1].rows) = Len(file.rows)

C1_Witness ==
    /\ outFile # <<>>
    /\ Len(outFile[1].rows) = 3
    /\ Status(outFile[1].rows[1]) = "Error: Timeout"
    /\ Status(outFile[1].rows[2]) = "No Address"
    /\ Status(outFile[1].rows[3]) = "Success"

-----------------------------------------------------------------------------
(* C2: build_address returns None exactly when each of the columns 9..12   *)
(* is absent or blank; otherwise the trimmed non-blank columns, in order,  *)
(* joined by ', '.                                                         *)

Blank(s) == \A k \in 1..Len(s) : IsSpace(Char(s, k))

AbsentOrBlank(r, k) == Len(r) <= k \/ Blank(r[k + 1])

\* s without its leading and trailing whitespace (s is not blank)
Trimmed(s) ==
    LET first == CHOOSE a \in 1..Len(s) :
                    ~IsSpace(Char(s, a)) /\ \A j \in 1..(a - 1) : IsSpace(Char(s, j))
        last == CHOOSE b \in 1..Len(s) :
                    ~IsSpace(Char(s, b)) /\ \A j \in (b + 1)..Len(s) : IsSpace(Char(s, j))
    IN SubSeq(s, first, last)

RECURSIVE JoinedFrom(_, _, _)
JoinedFrom(r, k, first) ==
    IF k > 12 THEN ""
    ELSE IF AbsentOrBlank(r, k) THEN JoinedFrom(r, k + 1, first)
    ELSE (IF first THEN "" ELSE ", ") \o Trimmed(r[k + 1])
            \o JoinedFrom(r, k + 1, FALSE)

\* C2: None iff columns 9..12 are all absent or blank, else the trimmed
\* non-blank columns in order, joined by ', '
C2_AddressBuilt ==
    pc = "built" =>
        /\ address = None <=> \A k \in 9..12 : AbsentOrBlank(row, k)
        /\ address # None => address = <<JoinedFrom(row, 9, TRUE)>>

C2_Witness ==
    /\ pc = "built"
    /\ Len(row) = 12
    /\ row[10] = " Apt 2 " /\ row[11] = " \t " /\ row[12] = "50010\t"
    /\ address = <<"Apt 2, 50010">>

-----------------------------------------------------------------------------
(* C3: an absent address is answered ('', '', '', 'No Address') with no    *)
(* request; the requests issued are as many as the rows with an address.   *)

\* C3: no address, no request; requests issued = rows with an address
C3_NoAddressNoRequest ==
    /\ (pc = "update" /\ address = None) =>
        /\ result = <<"", "", "", "No Address">>
        /\ \A j \in 1..Len(httpLog) : httpLog[j].row # i
    /\ IsTable => Len(httpLog) = Cardinality(Addressed(i))
    /\ (IsTable /\ pc \in {"summary", "done"}) =>
            Len(httpLog) = Cardinality(Addressed(Len(file.rows)))

C3_Witness ==
    /\ pc = "done"
    /\ Len(file.rows) = 3
    /\ Cardinality(Addressed(3)) = 1
    /\ Len(httpLog) = 1
    /\ Status(results[1]) = "No Address"

-----------------------------------------------------------------------------
(* C4: a 200 response whose first result holds a latitude and a longitude  *)
(* gives 'Success' with the string forms of lat, lon and score; any other  *)
(* 200 response gives ('', '', '', 'Not Found').                           *)

\* the key is present and holds a value (not null)
Holds(opt) == opt # <<>> /\ opt[1].t # "none"

\* C4: a 200 response is 'Success' with str(lat), str(lon), str(score) when
\* the first result holds both coordinates, and 'Not Found' otherwise
C4_Ok200Classified ==
    (/\ pc = "update" /\ httpLog # <<>>
     /\ response.kind = "http" /\ response.code = 200 /\ response.body.valid) =>
        LET rs == response.body.results
            first == rs[1][1]
            hasBoth == /\ rs # <<>> /\ Len(rs[1]) > 0
                       /\ first.position # <<>>
                       /\ Holds(first.position[1].lat)
                       /\ Holds(first.position[1].lon)
        IN IF hasBoth
           THEN result = <<pystr(first.position[1].lat[1]),
                           pystr(first.position[1].lon[1]),
                           IF first.score = <<>> THEN "" ELSE pystr(first.score[1]),
                           "Success">>
           ELSE result = <<"", "", "", "Not Found">>

-----------------------------------------------------------------------------
(* C5: every failure of the request returns empty latitude, longitude and  *)
(* confidence with the status of its kind: the fixed texts for 401, 403,   *)
(* 429 and a timeout, 'Error: HTTP <code>' for another non-200 code, and   *)
(* 'Error: ' with the first 50 characters of the message otherwise.        *)

\* st is 'Error: ' followed by the first 50 characters of m
IsCutMessage(st, m) ==
    \E n \in 0..50 :
        /\ n <= Len(m)
        /\ n = 50 \/ n = Len(m)
        /\ st = "Error: " \o SubSeq(m, 1, n)

\* C5: each failure returns empty fields and the status of its kind
C5_FailuresClassified ==
    (pc = "update" /\ httpLog # <<>>) =>
        /\ Len(result) = 4
        /\ response.kind = "timeout" => result = <<"", "", "", "Error: Timeout">>
        /\ (response.kind = "http" /\ response.code # 200) =>
              result = <<"", "", "",
                         CASE response.code = 401 -> "Error: Invalid API Key"
                           [] response.code = 403 -> "Error: Forbidden"
                           [] response.code = 429 -> "Error: Rate Limit"
                           [] OTHER -> "Error: HTTP " \o ToString(response.code)>>
        /\ (\/ response.kind = "error"
            \/ response.kind = "http" /\ response.code = 200 /\ ~response.body.valid) =>
              /\ result[1] = "" /\ result[2] = "" /\ result[3] = ""
              /\ IsCutMessage(result[4], response.msg)

C5_Witness ==
    /\ pc = "update"
    /\ response = Failure(MsgLong)
    /\ Len(response.msg) > 50
    /\ Len(result[4]) = 57

-----------------------------------------------------------------------------
(* C6: one request per row with an address, whatever its outcome, in input *)
(* order, each issued only once the results of all earlier rows are in.    *)

\* C6: one request per addressed row, in order, after the earlier results
C6_OnceInOrder ==
    /\ \A j \in 1..Len(httpLog) :
        /\ httpLog[j].row \in Addressed(i)
        /\ httpLog[j].done = httpLog[j].row - 1
        /\ httpLog[j].query = build_address(file.rows[httpLog[j].row])
    /\ \A j, k \in 1..Len(httpLog) : j < k => httpLog[j].row < httpLog[k].row
    /\ IsTable => \A r \in Addressed(i) :
            Cardinality({j \in 1..Len(httpLog) : httpLog[j].row = r}) = 1
    /\ pc = "await" => httpLog[Len(httpLog)].row = i /\ Len(results) = i - 1

C6_Witness ==
    /\ pc = "await"
    /\ i = 3
    /\ Status(results[1]) = "Error: Timeout"
    /\ Status(results[2]) = "Error: Rate Limit"
    /\ Len(httpLog) = 3

-----------------------------------------------------------------------------
(* C7: the average reported is the sum of the confidences of the rows with *)
(* status 'Success' over their number; with no such row no average is      *)
(* shown, and no division by zero happens.                                 *)

\* C7: average = sum of successful confidences / success count; none shown,
\* and no division by zero, when there is no success
C7_AverageConfidence ==
    /\ console.error # "Error: division by zero"
    /\ console.summary =>
        LET rs == outFile[1].rows
            n == Cardinality(Successes(rs, Len(rs)))
        IN /\ n = 0 => console.average = <<>>
           /\ n > 0 => console.average = <<ConfidenceSum(rs, Len(rs)), n>>

C7_Witness ==
    /\ console.summary
    /\ console.average = <<19, 2>>
    /\ Len(results) = 3
    /\ Confidence(results[1]) = "0.9"
    /\ Status(results[2]) = "Not Found"
    /\ Confidence(results[3]) = "1"

-----------------------------------------------------------------------------
(* C8: a missing or unreadable input ends the run with no request and no   *)
(* output file; the output file exists only once every row is processed.   *)

\* C8: no request and no output on an unreadable input; output only after
\* all rows
C8_NoPartialOutput ==
    /\ ~IsTable => httpLog = <<>> /\ outFile = <<>> /\ results = <<>>
    /\ ~IsTable => pc \in {"start", "done"}
    /\ console.error # "" => outFile = <<>>
    /\ outFile # <<>> =>
        /\ IsTable
        /\ i = Len(file.rows)
        /\ Len(results) = Len(file.rows)
        /\ Len(outFile[1].rows) = Len(file.rows)
    /\ pc \in {"start", "loop", "await", "update", "sleep"} /\ i < Len(file.rows)
            => outFile = <<>>

C8_Witness ==
    /\ pc = "done"
    /\ file.kind = "unreadable"
    /\ console.error # ""
    /\ outFile = <<>>

-----------------------------------------------------------------------------
(* C9: after k rows the two counters add up to k, the success counter is   *)
(* the number of rows with status 'Success' and the error counter the      *)
(* number of the others; a confidence that is no number changes neither    *)
(* the status nor the success counter.                                     *)

CountersMatch ==
    /\ success_count + error_count = Len(results)
    /\ success_count = Cardinality(Successes(results, Len(results)))
    /\ error_count = Len(results) - Cardinality(Successes(results, Len(results)))

\* a row whose confidence is no number still counts as a success
UnparsedKeepsStatus ==
    (pc = "update" /\ result[4] = "Success" /\ float(result[3]) = <<>>) =>
        /\ success_count' = success_count + 1
        /\ Status(results'[Len(results')]) = "Success"
        /\ total_confidence' = total_confidence

\* C9 as stated: the counters match the rows, and the two counters and the
\* cumulative confidence never decrease
C9_Monotone ==
    /\ [](CountersMatch)
    /\ [][/\ success_count' >= success_count
          /\ error_count' >= error_count
          /\ total_confidence' >= total_confidence
          /\ UnparsedKeepsStatus]_vars

\* C9 amended: the counters match the rows and never decrease; the
\* cumulative confidence is the sum of the numeric confidences of the
\* successful rows, and decreases only by a negative confidence of a
\* successful row
C9_Counters ==
    /\ [](CountersMatch /\ total_confidence = ConfidenceSum(results, Len(results)))
    /\ [][/\ success_count' >= success_count
          /\ error_count' >= error_count
          /\ total_confidence' < total_confidence =>
                /\ pc = "update" /\ result[4] = "Success"
                /\ float(result[3]) # <<>> /\ float(result[3])[1] < 0
                /\ total_confidence' = total_confidence + float(result[3])[1]
          /\ UnparsedKeepsStatus]_vars

C9_Witness ==
    /\ Len(results) = 3
    /\ Status(results[1]) = "Success" /\ Confidence(results[1]) = "high"
    /\ Status(results[2]) = "Success" /\ Confidence(results[2]) = "-1.5"
    /\ Status(results[3]) = "No Address"
    /\ success_count = 2 /\ error_count = 1 /\ total_confidence = -15

-----------------------------------------------------------------------------
(* C10: the driver sleeps after row i exactly when i < N, whether or not a *)
(* request was made for row i: N - 1 sleeps in all, none for N = 0.        *)

\* C10: a 200 ms sleep after row i iff i < N
C10_SleepBetweenRows ==
    /\ \A j \in 1..Len(sleeps) :
        sleeps[j].after = j /\ sleeps[j].after < Len(file.rows) /\ sleeps[j].ms = 200
    /\ pc \in {"await", "update"} => Len(sleeps) = i - 1
    /\ pc = "sleep" => Len(sleeps) = i - 1 /\ i < Len(file.rows)
    /\ (pc = "loop" /\ i < Len(file.rows)) => Len(sleeps) = i
    /\ (IsTable /\ pc \in {"summary", "done"}) =>
            Len(sleeps) = IF Len(file.rows) = 0 THEN 0 ELSE Len(file.rows) - 1

C10_Witness ==
    /\ pc = "done"
    /\ Len(file.rows) = 3
    /\ Status(results[1]) = "No Address"
    /\ Status(results[3]) = "No Address"
    /\ Len(sleeps) = 2

====
